---- MODULE Spec2Model ----
(***************************************************************************)
(* A model of custom_csv.py: CustomCsvReader (a character-level state      *)
(* machine over a buffer that is refilled from a stream in chunks) and     *)
(* CustomCsvWriter (field escaping and line emission).                     *)
(*                                                                         *)
(* A text is a sequence of one-character strings.  A value handed to the   *)
(* writer is a record: None, a string, or an integer (the demo block       *)
(* writes integers, which the writer stringifies).                         *)
(***************************************************************************)
EXTENDS Integers, Sequences, FiniteSets, TLC

VARIABLES
    todo,         \* writerows: the rows not yet written
    sink,         \* the writer's file_obj: the text written so far
    R,            \* the rows that were handed to writerows
    source,       \* the reader's file_obj: the text not yet read from it
    input,        \* the text the reader's file_obj held when it was opened
    buffer,       \* self._buffer
    eof,          \* self._eof
    fields,       \* _read_next_row: fields
    field_chars,  \* _read_next_row: field_chars
    in_quotes,    \* _read_next_row: in_quotes
    i,            \* _read_next_row: i (0-based position in the buffer)
    pc,           \* "write" | "write_failed" | "idle" | "scan" | "escape"
    rows,         \* the rows returned by the pulls so far, in order
    eos,          \* the number of pulls that raised StopIteration
    consumed,     \* the characters that went through the state machine, in order
    failures,     \* the pulls that a failed stream read ended: where, and the rows so far
    value,        \* _escape_field: its argument
    escaped       \* _escape_field: its result (a one-element sequence once set)

vars == <<todo, sink, R, source, input, buffer, eof, fields, field_chars,
          in_quotes, i, pc, rows, eos, consumed, failures, value, escaped>>

writer_vars == <<todo, sink, R>>
reader_vars == <<source, input, buffer, eof, fields, field_chars, in_quotes,
                 i, rows, eos, consumed, failures>>
escape_vars == <<value, escaped>>

----------------------------------------------------------------------------
(* Bounds of the model. *)

MaxLen == 4        \* longest enumerated input text / field value
MaxFields == 2     \* most fields in an enumerated row
MaxRows == 2       \* most rows in an enumerated list of rows
MaxEos == 2        \* pulls that may still be made once StopIteration was raised
MaxGrow == 1       \* characters appended to the stream after its end was seen
MaxFail == 1       \* stream reads that may fail
MaxFailRows == 3   \* most rows in a list handed to a writer whose sink may fail

(* Configuration: the defaults of both constructors. *)
delimiter == ","
quotechar == "\""
chunk_size == 4096

LF == "\n"
CR == "\r"

Alphabet == {"a", delimiter, quotechar, LF, CR}

Min(a, b) == IF a < b THEN a ELSE b

Texts(n) == UNION {[1..k -> Alphabet] : k \in 0..n}

Tail_from(s, k) == SubSeq(s, k + 1, Len(s))      \* Python s[k:]
Head_to(s, k) == SubSeq(s, 1, k)                 \* Python s[:k]

Contains(s, c) == \E k \in 1..Len(s) : s[k] = c  \* Python c in s

----------------------------------------------------------------------------
(* Values handed to the writer. *)

NoneVal == [kind |-> "none", s |-> <<>>, n |-> 0]
StrVal(t) == [kind |-> "str", s |-> t, n |-> 0]
IntVal(m) == [kind |-> "int", s |-> <<>>, n |-> m]

Digits == <<"0", "1", "2", "3", "4", "5", "6", "7", "8", "9">>

RECURSIVE decimal(_)
decimal(m) == IF m < 10 THEN <<Digits[m + 1]>>
              ELSE Append(decimal(m \div 10), Digits[(m % 10) + 1])

(* str(value) for a value that is not None *)
str(v) == IF v.kind = "int" THEN decimal(v.n) ELSE v.s

----------------------------------------------------------------------------
(* CustomCsvWriter *)

(* needs_quotes as it would be had the "\r" test been left out *)
needs_quotes_no_cr(val) ==
    \/ Contains(val, delimiter)
    \/ Contains(val, quotechar)
    \/ Contains(val, LF)

needs_quotes(val) ==
    \/ Contains(val, delimiter)
    \/ Contains(val, quotechar)
    \/ Contains(val, LF)
    \/ Contains(val, CR)

(* str.replace(old, new) for a one-character old *)
RECURSIVE replace(_, _, _)
replace(s, old, new) ==
    IF Len(s) = 0 THEN <<>>
    ELSE (IF Head(s) = old THEN new ELSE <<Head(s)>>) \o replace(Tail(s), old, new)

escape_field(v) ==
    LET val == IF v.kind = "none" THEN <<>> ELSE str(v)
        nq == needs_quotes(val)
        doubled == IF Contains(val, quotechar)
                   THEN replace(val, quotechar, <<quotechar, quotechar>>)
                   ELSE val
    IN  IF nq THEN <<quotechar>> \o doubled \o <<quotechar>> ELSE doubled

(* sep.join(parts) *)
RECURSIVE join(_, _)
join(sep, parts) ==
    IF Len(parts) = 0 THEN <<>>
    ELSE IF Len(parts) = 1 THEN parts[1]
    ELSE parts[1] \o <<sep>> \o join(sep, Tail(parts))

(* writerow's line as it would be with a "\r\n" line ending *)
writerow_line_crlf(row) ==
    join(delimiter, [k \in 1..Len(row) |-> escape_field(row[k])]) \o <<CR, LF>>

(* the line writerow hands to file_obj.write *)
writerow_line(row) ==
    join(delimiter, [k \in 1..Len(row) |-> escape_field(row[k])]) \o <<LF>>

----------------------------------------------------------------------------
(* CustomCsvReader: the pure parts of _read_next_row *)

(* the locals as they would be if in_quotes started as True *)
initial_locals_in_quotes ==
    [fields |-> <<>>, field_chars |-> <<>>, in_quotes |-> TRUE, i |-> 0]

(* "fields = []; field_chars = []; in_quotes = False; i = 0" *)
initial_locals ==
    [fields |-> <<>>, field_chars |-> <<>>, in_quotes |-> FALSE, i |-> 0]

(* buf[j] == quotechar with j inside the buffer (j is 0-based) *)
is_escaped_quote(buf, j) == j < Len(buf) /\ buf[j + 1] = quotechar

(* quoted_char as it would be if a newline ended the row inside quotes too *)
quoted_char_newline_ends(ch, buf, j, s) ==
    IF ch = quotechar
    THEN IF is_escaped_quote(buf, j)
         THEN [fields |-> s.fields, field_chars |-> Append(s.field_chars, quotechar),
               in_quotes |-> TRUE, i |-> j + 1, ret |-> FALSE]
         ELSE [fields |-> s.fields, field_chars |-> s.field_chars,
               in_quotes |-> FALSE, i |-> j, ret |-> FALSE]
    ELSE IF ch = LF
    THEN [fields |-> Append(s.fields, s.field_chars), field_chars |-> s.field_chars,
          in_quotes |-> FALSE, i |-> j, ret |-> TRUE]
    ELSE [fields |-> s.fields, field_chars |-> Append(s.field_chars, ch),
          in_quotes |-> TRUE, i |-> j, ret |-> FALSE]

(* one character read inside quotes; j is i after "i += 1" *)
quoted_char(ch, buf, j, s) ==
    IF ch = quotechar
    THEN IF is_escaped_quote(buf, j)
         THEN [fields |-> s.fields, field_chars |-> Append(s.field_chars, quotechar),
               in_quotes |-> TRUE, i |-> j + 1, ret |-> FALSE]
         ELSE [fields |-> s.fields, field_chars |-> s.field_chars,
               in_quotes |-> FALSE, i |-> j, ret |-> FALSE]
    ELSE [fields |-> s.fields, field_chars |-> Append(s.field_chars, ch),
          in_quotes |-> TRUE, i |-> j, ret |-> FALSE]

(* unquoted_char as it would be without the "\r" branch *)
unquoted_char_keeps_cr(ch, j, s) ==
    IF ch = quotechar
    THEN [fields |-> s.fields, field_chars |-> s.field_chars,
          in_quotes |-> TRUE, i |-> j, ret |-> FALSE]
    ELSE IF ch = delimiter
    THEN [fields |-> Append(s.fields, s.field_chars), field_chars |-> <<>>,
          in_quotes |-> FALSE, i |-> j, ret |-> FALSE]
    ELSE IF ch = LF
    THEN [fields |-> Append(s.fields, s.field_chars), field_chars |-> s.field_chars,
          in_quotes |-> FALSE, i |-> j, ret |-> TRUE]
    ELSE [fields |-> s.fields, field_chars |-> Append(s.field_chars, ch),
          in_quotes |-> FALSE, i |-> j, ret |-> FALSE]

(* unquoted_char as it would be if a delimiter after an empty field were
   skipped *)
unquoted_char_skips_empty(ch, j, s) ==
    IF ch = quotechar
    THEN [fields |-> s.fields, field_chars |-> s.field_chars,
          in_quotes |-> TRUE, i |-> j, ret |-> FALSE]
    ELSE IF ch = delimiter
    THEN IF Len(s.field_chars) = 0
         THEN [fields |-> s.fields, field_chars |-> <<>>,
               in_quotes |-> FALSE, i |-> j, ret |-> FALSE]
         ELSE [fields |-> Append(s.fields, s.field_chars), field_chars |-> <<>>,
               in_quotes |-> FALSE, i |-> j, ret |-> FALSE]
    ELSE IF ch = LF
    THEN [fields |-> Append(s.fields, s.field_chars), field_chars |-> s.field_chars,
          in_quotes |-> FALSE, i |-> j, ret |-> TRUE]
    ELSE IF ch = CR
    THEN [fields |-> s.fields, field_chars |-> s.field_chars,
          in_quotes |-> FALSE, i |-> j, ret |-> FALSE]
    ELSE [fields |-> s.fields, field_chars |-> Append(s.field_chars, ch),
          in_quotes |-> FALSE, i |-> j, ret |-> FALSE]

(* one character read outside quotes *)
unquoted_char(ch, j, s) ==
    IF ch = quotechar
    THEN [fields |-> s.fields, field_chars |-> s.field_chars,
          in_quotes |-> TRUE, i |-> j, ret |-> FALSE]
    ELSE IF ch = delimiter
    THEN [fields |-> Append(s.fields, s.field_chars), field_chars |-> <<>>,
          in_quotes |-> FALSE, i |-> j, ret |-> FALSE]
    ELSE IF ch = LF
    THEN [fields |-> Append(s.fields, s.field_chars), field_chars |-> s.field_chars,
          in_quotes |-> FALSE, i |-> j, ret |-> TRUE]
    ELSE IF ch = CR
    THEN [fields |-> s.fields, field_chars |-> s.field_chars,
          in_quotes |-> FALSE, i |-> j, ret |-> FALSE]
    ELSE [fields |-> s.fields, field_chars |-> Append(s.field_chars, ch),
          in_quotes |-> FALSE, i |-> j, ret |-> FALSE]

(* one iteration of the loop with i < len(self._buffer) *)
scan_step(buf, s) ==
    LET ch == buf[s.i + 1]
        j == s.i + 1
    IN  IF s.in_quotes THEN quoted_char(ch, buf, j, s) ELSE unquoted_char(ch, j, s)

(* "if field_chars or fields" *)
has_pending(fs, fc) == Len(fc) > 0 \/ Len(fs) > 0

(* eof_flush as it would be if signalling the end also cleared self._eof *)
eof_flush_clears_eof(fs, fc, e) ==
    IF has_pending(fs, fc)
    THEN [some |-> TRUE, row |-> Append(fs, fc), eof |-> e]
    ELSE [some |-> FALSE, row |-> <<>>, eof |-> FALSE]

(* the iteration with the buffer used up and self._eof set *)
eof_flush(fs, fc, e) ==
    IF has_pending(fs, fc)
    THEN [some |-> TRUE, row |-> Append(fs, fc), eof |-> e]
    ELSE [some |-> FALSE, row |-> <<>>, eof |-> e]

(* the used part of the buffer as it would be if it were dropped only after
   the read *)
drop_used_kept(buf, j) == buf

(* "self._buffer = self._buffer[i:]  # drop used part", before _fill_buffer *)
drop_used(buf, j) == Tail_from(buf, j)

(* the row is returned at a newline as it would be without the slice of the
   buffer *)
buffer_after_row_kept(buf, j) == buf

(* "self._buffer = self._buffer[i:]" when a row is returned at a newline *)
buffer_after_row(buf, j) == Tail_from(buf, j)

(* _fill_buffer as it would be if a read shorter than a full chunk were
   taken for the end of the stream *)
fill_buffer_result_short_is_eof(buf, e, chunk) ==
    IF Len(chunk) = 0 THEN [buffer |-> buf, eof |-> TRUE]
    ELSE [buffer |-> buf \o chunk, eof |-> Len(chunk) < chunk_size]

(* _fill_buffer as it would be if an empty read did not set self._eof *)
fill_buffer_result_no_eof(buf, e, chunk) ==
    IF Len(chunk) = 0 THEN [buffer |-> buf, eof |-> e]
    ELSE [buffer |-> buf \o chunk, eof |-> e]

(* _fill_buffer, given what file_obj.read returned *)
fill_buffer_result(buf, e, chunk) ==
    IF Len(chunk) = 0 THEN [buffer |-> buf, eof |-> TRUE]
    ELSE [buffer |-> buf \o chunk, eof |-> e]

(* _read_next_row over a stream that hands over all of its text in one read:
   the rest of the buffer is scanned to the next returned row *)
RECURSIVE scan_row(_, _)
scan_row(buf, s) ==
    IF s.i >= Len(buf)
    THEN LET r == eof_flush(s.fields, s.field_chars, TRUE)
         IN  [some |-> r.some, row |-> r.row, rest |-> <<>>]
    ELSE LET n == scan_step(buf, s)
         IN  IF n.ret
             THEN [some |-> TRUE, row |-> n.fields, rest |-> Tail_from(buf, n.i)]
             ELSE scan_row(buf, [fields |-> n.fields, field_chars |-> n.field_chars,
                                 in_quotes |-> n.in_quotes, i |-> n.i])

(* list(reader) over a stream that hands over all of text in one read *)
RECURSIVE read_all(_)
read_all(text) ==
    LET r == scan_row(text, initial_locals)
    IN  IF r.some THEN <<r.row>> \o read_all(r.rest) ELSE <<>>

----------------------------------------------------------------------------
(* The inputs the model enumerates. *)

(* a,b\r\nc,d\r\n *)
TextCRLF == <<"a", ",", "b", CR, LF, "c", ",", "d", CR, LF>>
(* a,b\nc,d\n *)
TextLF == <<"a", ",", "b", LF, "c", ",", "d", LF>>
(* a,b,c *)
TextNoNewline == <<"a", ",", "b", ",", "c">>
(* He said "Hi" *)
TextHeSaid == <<"H", "e", " ", "s", "a", "i", "d", " ", quotechar, "H", "i", quotechar>>
(* "He said ""Hi""" *)
TextHeSaidEscaped ==
    <<quotechar, "H", "e", " ", "s", "a", "i", "d", " ", quotechar, quotechar,
      "H", "i", quotechar, quotechar, quotechar>>
(* hello, world *)
TextHello == <<"h", "e", "l", "l", "o", ",", " ", "w", "o", "r", "l", "d">>
(* line1\nline2 *)
TextLines == <<"l", "i", "n", "e", "1", LF, "l", "i", "n", "e", "2">>
(* "line1\nline2" *)
TextLinesQuoted == <<quotechar>> \o TextLines \o <<quotechar>>

Inputs ==
    Texts(MaxLen) \cup {TextCRLF, TextLF, TextNoNewline, TextHeSaidEscaped, TextLinesQuoted}

(* the rows of the demo block *)
DemoRows ==
    << <<StrVal(<<"n", "a", "m", "e">>), StrVal(<<"a", "g", "e">>),
         StrVal(<<"c", "o", "m", "m", "e", "n", "t">>)>>,
       <<StrVal(<<"R", "a", "m">>), IntVal(20), StrVal(TextHello)>>,
       <<StrVal(<<"S", "i", "t", "a">>), IntVal(25), StrVal(TextHeSaid)>>,
       <<StrVal(<<"M", "u", "l", "t", "i">>), IntVal(30), StrVal(TextLines)>> >>

Values ==
    {StrVal(<<>>), StrVal(<<"a">>), StrVal(<<delimiter, quotechar>>), StrVal(<<CR, LF>>)}

RowsOf(n) == UNION {[1..k -> Values] : k \in 0..n}
RowLists == UNION {[1..k -> RowsOf(MaxFields)] : k \in 0..MaxRows} \cup {DemoRows}

(* the lists of rows handed to a writer whose sink may fail *)
FailRows ==
    {<<>>, <<StrVal(<<"a">>)>>, <<StrVal(<<delimiter, quotechar>>), StrVal(<<CR, LF>>)>>}
FailRowLists == UNION {[1..k -> FailRows] : k \in 0..MaxFailRows} \cup {DemoRows}

EscapeValues ==
    {NoneVal} \cup {StrVal(t) : t \in Texts(MaxLen)}
    \cup {IntVal(m) : m \in {0, 7, 20, 305}}
    \cup {StrVal(TextHeSaid), StrVal(TextHello), StrVal(TextLines)}

----------------------------------------------------------------------------
(* States after construction. *)

ReaderFresh ==
    /\ buffer = <<>>
    /\ eof = FALSE
    /\ fields = <<>>
    /\ field_chars = <<>>
    /\ in_quotes = FALSE
    /\ i = 0
    /\ rows = <<>>
    /\ eos = 0
    /\ consumed = <<>>
    /\ failures = <<>>

(* a reader constructed over a stream that holds some text *)
Init ==
    /\ pc = "idle"
    /\ input \in Inputs
    /\ source = input
    /\ ReaderFresh
    /\ todo = <<>> /\ sink = <<>> /\ R = <<>>
    /\ value = NoneVal /\ escaped = <<>>

(* a writer constructed over an empty sink, about to be handed some rows *)
InitWrite ==
    /\ pc = "write"
    /\ R \in RowLists
    /\ todo = R
    /\ sink = <<>>
    /\ input = <<>> /\ source = <<>>
    /\ ReaderFresh
    /\ value = NoneVal /\ escaped = <<>>

(* a writer over an empty sink that may fail, about to be handed some rows *)
InitWriteFail ==
    /\ pc = "write"
    /\ R \in FailRowLists
    /\ todo = R
    /\ sink = <<>>
    /\ input = <<>> /\ source = <<>>
    /\ ReaderFresh
    /\ value = NoneVal /\ escaped = <<>>

(* _escape_field about to be applied to some value *)
InitEscape ==
    /\ pc = "escape"
    /\ value \in EscapeValues
    /\ escaped = <<>>
    /\ input = <<>> /\ source = <<>>
    /\ ReaderFresh
    /\ todo = <<>> /\ sink = <<>> /\ R = <<>>

----------------------------------------------------------------------------
(* The writer's operations. *)

(* one iteration of writerows: writerow(row) for the next row *)
writerow ==
    /\ pc = "write"
    /\ Len(todo) > 0
    /\ sink' = sink \o writerow_line(Head(todo))
    /\ todo' = Tail(todo)
    /\ UNCHANGED <<R, pc>>
    /\ UNCHANGED reader_vars
    /\ UNCHANGED escape_vars

(* the sink after a failed write as it would be if the failure rolled the
   earlier lines back *)
sink_after_failure_rollback(old, residue) == residue

(* the sink after file_obj.write raised: the earlier text, then whatever part
   of the line the sink took before it failed *)
sink_after_failure(old, residue) == old \o residue

(* writerow(row) for the next row, and file_obj.write raises: the exception
   leaves writerow and the loop of writerows *)
writerow_fails ==
    /\ pc = "write"
    /\ Len(todo) > 0
    /\ \E n \in 0..Len(writerow_line(Head(todo))) :
          sink' = sink_after_failure(sink, Head_to(writerow_line(Head(todo)), n))
    /\ pc' = "write_failed"
    /\ UNCHANGED <<R, todo>>
    /\ UNCHANGED reader_vars
    /\ UNCHANGED escape_vars

(* _escape_field(value) *)
escape_call ==
    /\ pc = "escape"
    /\ escaped = <<>>
    /\ escaped' = <<escape_field(value)>>
    /\ UNCHANGED <<value, pc>>
    /\ UNCHANGED reader_vars
    /\ UNCHANGED writer_vars

(* the demo block: the written file is closed and opened again for reading *)
open_reader ==
    /\ pc = "write"
    /\ Len(todo) = 0
    /\ pc' = "idle"
    /\ input' = sink
    /\ source' = sink
    /\ UNCHANGED <<buffer, eof, fields, field_chars, in_quotes, i, rows, eos,
                   consumed, failures>>
    /\ UNCHANGED writer_vars
    /\ UNCHANGED escape_vars

----------------------------------------------------------------------------
(* The reader's operations: __next__ calls _read_next_row, whose loop runs
   one iteration per step. *)

set_locals(s) ==
    /\ fields' = s.fields
    /\ field_chars' = s.field_chars
    /\ in_quotes' = s.in_quotes
    /\ i' = s.i

(* __next__ is called: _read_next_row initialises its locals *)
read_next_row_begin ==
    /\ pc = "idle"
    /\ eos < MaxEos
    /\ pc' = "scan"
    /\ set_locals(initial_locals)
    /\ UNCHANGED <<source, input, buffer, eof, rows, eos, consumed, failures>>
    /\ UNCHANGED writer_vars
    /\ UNCHANGED escape_vars

(* file_obj.read(chunk_size): up to chunk_size characters, none only at the end *)
file_read(n) ==
    /\ n \in 0..Min(chunk_size, Len(source))
    /\ (n = 0) <=> (Len(source) = 0)

(* the buffer is used up and the end was not seen: drop it and _fill_buffer *)
fill_buffer ==
    /\ pc = "scan"
    /\ i >= Len(buffer)
    /\ ~eof
    /\ \E n \in 0..Len(source) :
          /\ file_read(n)
          /\ LET r == fill_buffer_result(drop_used(buffer, i), eof, Head_to(source, n))
             IN  /\ buffer' = r.buffer
                 /\ eof' = r.eof
          /\ source' = Tail_from(source, n)
    /\ i' = 0
    /\ UNCHANGED <<input, fields, field_chars, in_quotes, pc, rows, eos, consumed,
                   failures>>
    /\ UNCHANGED writer_vars
    /\ UNCHANGED escape_vars

(* the buffer is used up and the end was not seen: the used part is dropped
   and file_obj.read raises.  The exception leaves _fill_buffer,
   _read_next_row and __next__; the stream may have lost what it had read *)
read_fails ==
    /\ pc = "scan"
    /\ i >= Len(buffer)
    /\ ~eof
    /\ Len(failures) < MaxFail
    /\ buffer' = drop_used(buffer, i)
    /\ \E n \in 0..Len(source) :
          /\ source' = Tail_from(source, n)
          /\ failures' = Append(failures, [cut |-> Len(input) - Len(source) + n,
                                           kept |-> Len(rows)])
    /\ pc' = "idle"
    /\ set_locals(initial_locals)
    /\ UNCHANGED <<input, eof, rows, eos, consumed>>
    /\ UNCHANGED writer_vars
    /\ UNCHANGED escape_vars

(* the buffer is used up and the end was seen: the last row, or StopIteration *)
eof_return ==
    /\ pc = "scan"
    /\ i >= Len(buffer)
    /\ eof
    /\ LET r == eof_flush(fields, field_chars, eof)
       IN  /\ eof' = r.eof
           /\ rows' = IF r.some THEN Append(rows, r.row) ELSE rows
           /\ eos' = IF r.some THEN eos ELSE eos + 1
    /\ pc' = "idle"
    /\ set_locals(initial_locals)
    /\ UNCHANGED <<source, input, buffer, consumed, failures>>
    /\ UNCHANGED writer_vars
    /\ UNCHANGED escape_vars

(* one character of the buffer goes through the state machine *)
consume_char ==
    /\ pc = "scan"
    /\ i < Len(buffer)
    /\ LET n == scan_step(buffer, [fields |-> fields, field_chars |-> field_chars,
                                   in_quotes |-> in_quotes, i |-> i])
       IN  IF n.ret
           THEN /\ rows' = Append(rows, n.fields)
                /\ buffer' = buffer_after_row(buffer, n.i)
                /\ pc' = "idle"
                /\ set_locals(initial_locals)
                /\ consumed' = consumed \o SubSeq(buffer, i + 1, n.i)
           ELSE /\ set_locals(n)
                /\ consumed' = consumed \o SubSeq(buffer, i + 1, n.i)
                /\ UNCHANGED <<rows, buffer, pc>>
    /\ UNCHANGED <<source, input, eof, eos, failures>>
    /\ UNCHANGED writer_vars
    /\ UNCHANGED escape_vars

(* the environment: the stream gets more text after the reader signalled the
   end of the sequence (text that arrives earlier is part of the input) *)
source_grows ==
    /\ pc = "idle"
    /\ eos >= 1
    /\ Len(source) < MaxGrow
    /\ \E c \in Alphabet : source' = Append(source, c)
    /\ UNCHANGED <<input, buffer, eof, fields, field_chars, in_quotes, i, pc, rows, eos,
                   consumed, failures>>
    /\ UNCHANGED writer_vars
    /\ UNCHANGED escape_vars

----------------------------------------------------------------------------
(* Specifications. *)

NextRead ==
    \/ read_next_row_begin
    \/ fill_buffer
    \/ eof_return
    \/ consume_char
    \/ source_grows

NextReadFail ==
    \/ read_next_row_begin
    \/ fill_buffer
    \/ read_fails
    \/ eof_return
    \/ consume_char

NextWrite == writerow

NextWriteFail ==
    \/ writerow
    \/ writerow_fails

NextEscape == escape_call

NextRoundTrip ==
    \/ writerow
    \/ open_reader
    \/ read_next_row_begin
    \/ fill_buffer
    \/ eof_return
    \/ consume_char

(* a reader pulled until the end, over any input and any chunking *)
Spec == Init /\ [][NextRead]_vars

(* the loop of _read_next_row runs on without suspending but for the read,
   which returns, and the caller keeps pulling *)
ReaderProgress ==
    /\ WF_vars(read_next_row_begin)
    /\ WF_vars(fill_buffer)
    /\ WF_vars(eof_return)
    /\ WF_vars(consume_char)

(* a reader that is pulled for as long as it may be *)
SpecLive == Init /\ [][NextRead]_vars /\ ReaderProgress

(* a reader pulled until the end over a stream whose read may fail *)
SpecReadFail == Init /\ [][NextReadFail]_vars

(* writerows over any list of rows *)
SpecWrite == InitWrite /\ [][NextWrite]_vars

(* writerows over any list of rows and a sink whose write may fail *)
SpecWriteFail == InitWriteFail /\ [][NextWriteFail]_vars

(* _escape_field over any value *)
SpecEscape == InitEscape /\ [][NextEscape]_vars

(* the demo block: rows are written, then read back from the written text *)
SpecRoundTrip == InitWrite /\ [][NextRoundTrip]_vars

----------------------------------------------------------------------------
(* Vocabulary of the properties: what an input text says, read as a whole. *)

(* the number of c among the first k characters of t *)
CountIn(t, c, k) == Cardinality({m \in 1..k : t[m] = c})

(* position k of t lies outside every quoted section: an even number of
   quote characters precedes it *)
Outside(t, k) == CountIn(t, quotechar, k - 1) % 2 = 0

(* the newlines of t that end a row *)
RowBreaks(t) == {k \in 1..Len(t) : t[k] = LF /\ Outside(t, k)}

LastRowBreak(t) ==
    IF RowBreaks(t) = {} THEN 0
    ELSE CHOOSE k \in RowBreaks(t) : \A m \in RowBreaks(t) : m <= k

(* the text after the last row break *)
Trailing(t) == Tail_from(t, LastRowBreak(t))

(* the trailing text holds something besides dropped carriage returns *)
HasTrailingContent(t) == \E k \in 1..Len(Trailing(t)) : Trailing(t)[k] # CR

(* the texts of a list of rows of string values *)
RowTexts(rs) == [k \in 1..Len(rs) |-> [m \in 1..Len(rs[k]) |-> rs[k][m].s]]

AllStrings(rs) == \A k \in 1..Len(rs) : \A m \in 1..Len(rs[k]) : rs[k][m].kind = "str"

(* the reader has signalled the end of the sequence *)
Exhausted == eos >= 1

(* the state machine is about to read buffer[i] *)
AtChar == pc = "scan" /\ i < Len(buffer)

(* what follows buffer[i] in the input: the rest of the buffer, then the
   unread part of the stream *)
InputAfterChar == Tail_from(buffer, i + 1) \o source

----------------------------------------------------------------------------
(* C1: Round-trip.  For every list of rows R of string fields, writing R
   with writerows and then pulling rows from a reader over that output until
   the end of the sequence yields exactly R. *)
C1_RoundTrip ==
    (pc = "idle" /\ Exhausted /\ AllStrings(R)) => rows = RowTexts(R)

(* C2: Chunk-boundary independence.  However the stream splits the input
   into read chunks, pulling rows until the end of the sequence yields the
   rows that reading the input all at once yields. *)
C2_ChunkIndependence ==
    Exhausted => rows = read_all(input)

(* C3: Escaped quote.  Inside a quoted section a quote character that the
   input follows with another quote character adds exactly one quote to the
   field, consumes both and stays in quoted mode; followed by anything else,
   or by the end of the input, it closes the section and adds nothing. *)
C3_EscapedQuote ==
    [][(AtChar /\ in_quotes /\ buffer[i + 1] = quotechar) =>
         IF Len(InputAfterChar) > 0 /\ InputAfterChar[1] = quotechar
         THEN /\ field_chars' = Append(field_chars, quotechar)
              /\ i' = i + 2
              /\ in_quotes'
         ELSE /\ field_chars' = field_chars
              /\ ~in_quotes'
      ]_vars

(* C4: Row count.  Over a whole input the reader produces one row for each
   newline outside every quoted section, plus one final row if content
   follows the last such newline, and no other row. *)
C4_RowCount ==
    Exhausted =>
        Len(rows) = Cardinality(RowBreaks(input))
                    + (IF HasTrailingContent(input) THEN 1 ELSE 0)

(* C5: End of stream without a terminating newline.  The pull that finds
   the stream at its end signals the end of the sequence if nothing of the
   current row was read, and returns exactly one final row if the current
   row has any field content, be it a single empty field; the pull after it
   signals the end of the sequence.  (Stated for a current row whose quoted
   sections are closed.) *)
C5_EndOfStream ==
    [][(pc = "scan" /\ i >= Len(buffer) /\ eof /\ eos = 0) =>
         /\ Len(Trailing(input)) = 0 => (rows' = rows /\ eos' = 1)
         /\ (HasTrailingContent(input) /\ Outside(input, Len(input) + 1)) =>
               (Len(rows') = Len(rows) + 1 /\ eos' = 0 /\ buffer' = <<>>)
         /\ input = TextNoNewline => rows' = << <<<<"a">>, <<"b">>, <<"c">> >> >>
      ]_vars


(* C6: Quoted mode.  While the reader is in quoted mode every character
   other than the quote character (the delimiter, \n and \r included) is
   appended unchanged to the current field and ends neither the field nor
   the row; "line1\nline2" in quotes is one field of one row. *)
C6_QuotedLiteral ==
    /\ [][(AtChar /\ in_quotes /\ buffer[i + 1] # quotechar) =>
            /\ field_chars' = Append(field_chars, buffer[i + 1])
            /\ fields' = fields
            /\ rows' = rows
            /\ in_quotes'
            /\ pc' = "scan"
            /\ i' = i + 1
         ]_vars
    /\ []((Exhausted /\ input = TextLinesQuoted) => rows = << <<TextLines>> >>)

(* a delimiter, a newline and a carriage return were all taken into one
   quoted field *)
C6_Witness ==
    /\ pc = "scan"
    /\ in_quotes
    /\ fields = <<>>
    /\ rows = <<>>
    /\ field_chars = <<delimiter, LF, CR>>

(* t without the carriage returns that stand right before a row break *)
RECURSIVE StripFrom(_, _)
StripFrom(t, k) ==
    IF k > Len(t) THEN <<>>
    ELSE IF t[k] = CR /\ k < Len(t) /\ t[k + 1] = LF /\ Outside(t, k)
    THEN StripFrom(t, k + 1)
    ELSE <<t[k]>> \o StripFrom(t, k + 1)

CRLFtoLF(t) == StripFrom(t, 1)

(* no quote character of t is followed at once by another *)
NoAdjacentQuotes(t) ==
    \A k \in 1..(Len(t) - 1) : ~(t[k] = quotechar /\ t[k + 1] = quotechar)

(* C7: CRLF normalization.  Outside quoted sections a carriage return is
   dropped: reading it changes neither the field nor the row and ends no
   row.  So an input whose rows end in \r\n yields the rows of the same
   input with rows ending in \n, and a,b\r\nc,d\r\n yields the rows
   ["a","b"] and ["c","d"]. *)
C7_CRLF ==
    /\ [][(AtChar /\ ~in_quotes /\ buffer[i + 1] = CR) =>
            /\ field_chars' = field_chars
            /\ fields' = fields
            /\ rows' = rows
            /\ ~in_quotes'
            /\ pc' = "scan"
            /\ i' = i + 1
         ]_vars
    /\ [](read_all(input) = read_all(CRLFtoLF(input)))
    /\ []((Exhausted /\ NoAdjacentQuotes(input)) => rows = read_all(CRLFtoLF(input)))
    /\ []((Exhausted /\ input = TextCRLF) =>
             rows = << <<<<"a">>, <<"b">>>>, <<<<"c">>, <<"d">>>> >>)

(* a,b\r\nc,d\r\n was read to the end and gave two rows *)
C7_Witness ==
    /\ Exhausted
    /\ input = TextCRLF
    /\ CRLFtoLF(input) = TextLF
    /\ Len(rows) = 2

(* the text _escape_field works on *)
ValueText(v) == IF v.kind = "none" THEN <<>> ELSE str(v)

(* w is v with every quote character doubled, stated position by position *)
IsDoubled(v, w) ==
    /\ Len(w) = Len(v) + CountIn(v, quotechar, Len(v))
    /\ \A k \in 1..Len(v) :
          LET p == k + CountIn(v, quotechar, k - 1)
          IN  /\ w[p] = v[k]
              /\ v[k] = quotechar => w[p + 1] = quotechar

IsSpecial(v) == \E k \in 1..Len(v) : v[k] \in {delimiter, quotechar, LF, CR}

(* C8: FieldEscaper.  The output is the value with every quote character
   doubled, wrapped in one quote character on each side if and only if the
   value contains the delimiter, the quote character, \n or \r; a value with
   none of these is returned unchanged, and None gives the empty string. *)
C8_FieldEscaper ==
    Len(escaped) = 1 =>
        LET v == ValueText(value)
            e == escaped[1]
        IN  /\ IsSpecial(v) =>
                 /\ Len(e) >= 2
                 /\ e[1] = quotechar
                 /\ e[Len(e)] = quotechar
                 /\ IsDoubled(v, SubSeq(e, 2, Len(e) - 1))
            /\ ~IsSpecial(v) => e = v
            /\ value.kind = "none" => e = <<>>

(* He said "Hi" was escaped to "He said ""Hi""" *)
C8_Witness ==
    /\ value = StrVal(TextHeSaid)
    /\ escaped = <<TextHeSaidEscaped>>

(* the lengths of the first k parts, each with one separator after it *)
RECURSIVE OffsetOf(_, _)
OffsetOf(parts, k) ==
    IF k = 0 THEN 0 ELSE OffsetOf(parts, k - 1) + Len(parts[k]) + 1

(* line is the parts in order, one delimiter between two parts, then \n *)
IsLineOf(line, parts) ==
    LET n == Len(parts)
    IN  /\ Len(line) = IF n = 0 THEN 1 ELSE OffsetOf(parts, n)
        /\ line[Len(line)] = LF
        /\ \A k \in 1..n :
              /\ SubSeq(line, OffsetOf(parts, k - 1) + 1,
                        OffsetOf(parts, k) - 1) = parts[k]
              /\ k < n => line[OffsetOf(parts, k)] = delimiter

RECURSIVE CountInRow(_, _, _)
CountInRow(row, c, k) ==
    IF k = 0 THEN 0
    ELSE CountInRow(row, c, k - 1)
         + CountIn(ValueText(row[k]), c, Len(ValueText(row[k])))

(* C9: writeRow.  Each call appends exactly one line to the output: the
   escaped fields in their order, joined by the delimiter, followed by a
   single \n.  It emits no \r (and no further \n) that was not inside a field
   value, and leaves the text already in the output unchanged. *)
C9_WriteRow ==
    [][(pc = "write" /\ todo' # todo) =>
         LET row == Head(todo)
             line == Tail_from(sink', Len(sink))
         IN  /\ todo' = Tail(todo)
             /\ Len(sink') > Len(sink)
             /\ Head_to(sink', Len(sink)) = sink
             /\ IsLineOf(line, [k \in 1..Len(row) |-> escape_field(row[k])])
             /\ CountIn(line, CR, Len(line)) = CountInRow(row, CR, Len(row))
             /\ CountIn(line, LF, Len(line)) = CountInRow(row, LF, Len(row)) + 1
      ]_vars

(* a second row of two fields, one of them holding \r\n, was appended to a
   first line *)
C9_Witness ==
    /\ pc = "write"
    /\ Len(R) = 2
    /\ Len(todo) = 0
    /\ Len(R[2]) = 2
    /\ R[2][1] = StrVal(<<CR, LF>>)
    /\ Len(sink) > Len(writerow_line(R[1]))

(* C10: Exhaustion is final.  Once a pull has signalled the end of the
   sequence, every later pull signals it too and none returns a row. *)
C10_StaysExhausted ==
    [][Exhausted =>
         /\ rows' = rows
         /\ eos' >= eos
         /\ (pc = "scan" /\ pc' = "idle") => eos' = eos + 1
      ]_vars

(* a second pull signalled the end although the stream had text again *)
C10_Witness ==
    /\ eos = 2
    /\ pc = "idle"
    /\ Len(source) > 0


(* the lines of the first k rows of rs *)
RECURSIVE LinesOf(_, _)
LinesOf(rs, k) == IF k = 0 THEN <<>> ELSE LinesOf(rs, k - 1) \o writerow_line(rs[k])

(* writerows has written this many rows *)
Written == Len(R) - Len(todo)

(* C11: writeRows.  The rows are written in sequence order, one line per
   row.  If the sink fails while row k is written, the failure reaches the
   caller: the lines of rows 1..k-1 stay in the output unchanged, at most a
   part of the line of row k follows them, and no line of a later row is
   written. *)
C11_WriteRows ==
    /\ [](pc = "write" => sink = LinesOf(R, Written))
    /\ [](pc = "write_failed" =>
             /\ Len(todo) > 0
             /\ \E n \in 0..Len(writerow_line(R[Written + 1])) :
                   sink = LinesOf(R, Written) \o Head_to(writerow_line(R[Written + 1]), n))
    /\ [][pc = "write_failed" => (pc' = "write_failed" /\ sink' = sink /\ todo' = todo)]_vars
    /\ [][(pc = "write" /\ pc' = "write_failed") =>
            (Head_to(sink', Len(sink)) = sink /\ todo' = todo)]_vars

(* the sink failed on the second of the four demo rows, part of whose line
   was written *)
C11_Witness ==
    /\ pc = "write_failed"
    /\ R = DemoRows
    /\ Len(todo) = 3
    /\ Len(sink) > Len(LinesOf(R, 1))


(* C12: Unclosed quoted section.  When the stream ends while the reader is
   in quoted mode, the pull raises no error and returns what was accumulated
   as the final field of the final row. *)
C12_UnclosedQuote ==
    [][(pc = "scan" /\ i >= Len(buffer) /\ eof /\ in_quotes) =>
         /\ pc' = "idle"
         /\ rows' = Append(rows, Append(fields, field_chars))
         /\ eos' = eos
      ]_vars


(* the step in which a stream read fails *)
ReadFailure == Len(failures') > Len(failures)

LastFailure == failures[Len(failures)]

(* C13: Stream read failure.  When the stream read fails during a pull the
   failure reaches the caller and the pull returns no row.  The fields and
   characters accumulated for the row in progress are lost: nothing of them
   stays in the reader, and the rows that later pulls return are those of the
   text the stream still holds. *)
C13_ReadFailure ==
    /\ [][ReadFailure =>
            /\ pc = "scan" /\ pc' = "idle"
            /\ rows' = rows
            /\ eos' = eos
            /\ buffer' = <<>>
            /\ fields' = <<>>
            /\ field_chars' = <<>>
            /\ ~in_quotes'
            /\ ~eof'
         ]_vars
    /\ []((Exhausted /\ Len(failures) > 0 /\ NoAdjacentQuotes(input)) =>
             SubSeq(rows, LastFailure.kept + 1, Len(rows))
                = read_all(Tail_from(input, LastFailure.cut)))

(* a read failed after a field and some characters were accumulated, and
   later pulls returned a row and the end of the sequence *)
C13_Witness ==
    /\ Exhausted
    /\ Len(failures) > 0
    /\ Len(input) >= 3
    /\ LastFailure.kept = 0
    /\ LastFailure.cut = 3
    /\ Head_to(input, 3) = <<"a", delimiter, "a">>
    /\ Len(rows) = 1


(* the text the state machine has not consumed yet *)
Unconsumed == Tail_from(buffer, i) \o source

(* C14: No re-scan.  Every character of the input goes through the state
   machine exactly once: the characters consumed so far, then the unread
   rest of the buffer, then the unread part of the stream are the input (and
   what the stream got after its end was seen).  The buffer after a returned
   row is the unconsumed tail of the chunk, and a refill only appends. *)
C14_NoRescan ==
    /\ [](Head_to(consumed \o Unconsumed, Len(input)) = input)
    /\ [](eos = 0 => consumed \o Unconsumed = input)
    /\ [](Exhausted => consumed = input)
    /\ [][(pc = "scan" /\ pc' = "idle" /\ i < Len(buffer)) =>
            /\ Len(consumed') = Len(consumed) + 1
            /\ buffer' = Tail_from(buffer, i + 1)
         ]_vars
    /\ [][(pc = "scan" /\ source' # source) =>
            \E n \in 1..Len(source) :
               /\ buffer' = Tail_from(buffer, i) \o Head_to(source, n)
               /\ source' = Tail_from(source, n)
               /\ consumed' = consumed
         ]_vars

(* a second row was returned from the same chunk, with text left in the
   buffer and in the stream *)
C14_Witness ==
    /\ pc = "idle"
    /\ Len(rows) = 2
    /\ Len(buffer) > 0
    /\ Len(source) > 0
    /\ consumed \o buffer \o source = input


(* C15: Termination.  Over a finite stream whose reads return a non-empty
   chunk until the input is used up and an empty result afterwards, every
   pull terminates, and after finitely many pulls the reader signals the end
   of the sequence. *)
C15_Termination ==
    /\ (pc = "scan") ~> (pc = "idle")
    /\ <>Exhausted

(* a longest input was read in more than one chunk into two rows, and the
   pull after them signalled the end *)
C15_Witness ==
    /\ pc = "idle"
    /\ eos = 1
    /\ Len(input) = MaxLen
    /\ Len(rows) = 2
    /\ consumed = input
    /\ Len(source) = 0


(* the position of the k-th row break of t; 0 for k = 0 *)
NthRowBreak(t, k) ==
    IF k = 0 THEN 0
    ELSE CHOOSE p \in RowBreaks(t) : Cardinality({q \in RowBreaks(t) : q <= p}) = k

(* the delimiters outside quoted sections in the text of the k-th row of t *)
RowDelimiters(t, k) ==
    {p \in (NthRowBreak(t, k - 1) + 1)..(NthRowBreak(t, k) - 1) :
        t[p] = delimiter /\ Outside(t, p)}

(* C16: Field count.  A row returned at a terminating newline has one more
   field than its text has delimiters outside quoted sections, the fields in
   input order: a delimiter outside quotes ends the current field, also an
   empty one, and the newline ends the last field and the row. *)
C16_FieldCount ==
    /\ [](\A k \in 1..Len(rows) :
             k <= Cardinality(RowBreaks(input)) =>
                Len(rows[k]) = Cardinality(RowDelimiters(input, k)) + 1)
    /\ [][(AtChar /\ ~in_quotes /\ buffer[i + 1] = delimiter) =>
            /\ fields' = Append(fields, field_chars)
            /\ field_chars' = <<>>
            /\ rows' = rows
            /\ pc' = "scan"
         ]_vars
    /\ [][(AtChar /\ ~in_quotes /\ buffer[i + 1] = LF) =>
            /\ rows' = Append(rows, Append(fields, field_chars))
            /\ pc' = "idle"
         ]_vars

(* ,,\n gave one row of three empty fields *)
C16_Witness ==
    /\ Len(input) >= 3
    /\ Head_to(input, 3) = <<delimiter, delimiter, LF>>
    /\ Len(rows) >= 1
    /\ rows[1] = << <<>>, <<>>, <<>> >>


(* the state machine has consumed the input up to a row boundary: nothing
   yet, or up to a newline outside quotes, or all of it with the end seen *)
AtRowBoundary ==
    \/ Len(consumed) = 0
    \/ Len(consumed) \in RowBreaks(input)
    \/ (Len(consumed) = Len(input) /\ eof)

(* C17: Between pulls.  Every pull starts in unquoted mode with an empty
   field accumulator and an empty row accumulator, and a row is returned only
   when the reader is outside a quoted section or the stream is at its end;
   so between pulls the text left in the buffer starts at a row boundary of
   the input. *)
C17_BetweenPulls ==
    /\ [][(pc = "idle" /\ pc' = "scan") =>
            /\ fields' = <<>>
            /\ field_chars' = <<>>
            /\ ~in_quotes'
            /\ i' = 0
         ]_vars
    /\ [][Len(rows') > Len(rows) => (~in_quotes \/ eof)]_vars
    /\ [](pc = "idle" => (i = 0 /\ AtRowBoundary))
    /\ []((pc = "idle" /\ eos = 0) =>
             buffer \o source = Tail_from(input, Len(consumed)))

(* a pull has started on the text left in the buffer after a row that ended
   at a newline following a quoted field *)
C17_Witness ==
    /\ pc = "scan"
    /\ Len(rows) = 1
    /\ Len(buffer) > 0
    /\ i = 0
    /\ Len(consumed) \in RowBreaks(input)
    /\ Contains(consumed, quotechar)


(* C18: The end-of-stream flag.  self._eof is set only by a stream read that
   returns nothing, it is never cleared, the buffer is empty whenever it is
   set, and once it is set the reader takes nothing from the stream any
   more, also when the stream has text again. *)
C18_StickyEof ==
    /\ [][(~eof /\ eof') =>
            /\ pc = "scan"
            /\ i >= Len(buffer)
            /\ Len(source) = 0
            /\ source' = source
         ]_vars
    /\ [][eof => eof']_vars
    /\ [](eof => Len(buffer) = 0)
    /\ [][eof => Head_to(source', Len(source)) = source]_vars

(* with the flag set and text in the stream again, a pull ran to its end and
   left that text in the stream *)
C18_Witness ==
    /\ eof
    /\ pc = "idle"
    /\ eos = MaxEos
    /\ Len(source) = MaxGrow
    /\ Len(buffer) = 0
    /\ Len(consumed) = Len(input)

====
